---- MODULE Spec2Model ----
(***************************************************************************)
(* Sentiment analysis platform: the local text classifier                  *)
(* (utils/localSentimentAnalyzer.ts, four revisions) and the               *)
(* analyze-sentiment edge function (batched and per-comment revisions),    *)
(* and the camera component FaceSentimentDetector: the revision that sends *)
(* a frame to analyze-face-emotion on a 5 s interval timer, and the two    *)
(* revisions that detect faces with a local model in an animation-frame    *)
(* loop.                                                                   *)
(*                                                                         *)
(* Strings are sequences of one-character strings, so that toLowerCase,    *)
(* includes and the array regex are computed, not assumed.  Scores are     *)
(* integers in hundredths (0.7 is 70).                                     *)
(***************************************************************************)
EXTENDS Integers, Sequences, FiniteSets, TLC

VARIABLES
    variant,            \* which revision of localSentimentAnalyzer.ts is built
    sentimentAnalyzer,  \* module-level pipeline handle: 0 (null), or k for the k-th pipeline created
    lpc,                \* position of the analyzeSentimentLocal call
    comments,           \* its comments argument
    hasCallback,        \* whether onProgress was passed
    i,                  \* loop index (0-based, as in the code)
    results,            \* the results accumulator
    lastRaw,            \* result[0] of the latest analyzer(comment) call
    progress,           \* argument lists of the onProgress invocations
    trace,              \* classifier calls, returns and callbacks, in order
    returned,           \* the value the promise resolved with
    handler,            \* which revision of the analyze-sentiment function is deployed
    apiKey,             \* whether LOVABLE_API_KEY is configured
    fpc,                \* position of the serve handler
    fnComments,         \* comments of the request body
    fnI,                \* loop index i of the handler (0-based)
    fnResults,          \* the handler's results accumulator
    lastStatus,         \* status of the latest upstream response (0: none yet)
    lastContent,        \* content of the latest 200 upstream response
    fnTrace,            \* upstream requests (with their batch) and delays, in order
    response,           \* the HTTP response of the function
    mounted,            \* FaceSentimentDetector: "no", "yes", "gone" (unmounted)
    isActive,           \* component state
    isLoading,          \* component state
    faces,              \* component state: the detections shown
    stream,             \* component state: 0 (null) or the session whose MediaStream it is
    isAnalyzing,        \* component state: the in-flight flag
    analysisIntervalRef,\* ref: 0 (null) or the interval timer (named by its session)
    intervals,          \* live interval timers
    timeouts,           \* pending first-analysis timeouts
    liveTracks,         \* sessions whose MediaStream tracks are live
    camPc,              \* position of the startCamera call
    session,            \* number of startCamera calls so far
    captured,           \* isAnalyzing as seen by the closures of each session
    inFlight,           \* analyze-face-emotion calls of each session not yet returned
    toast,              \* title of the latest toast
    lastReply,          \* the latest analyze-face-emotion reply the mounted component handled
    sessionEnd,         \* how the latest active session ended, until the next startCamera
    faceVariant,        \* which revision of FaceSentimentDetector is built
    cameraDenied,       \* getUserMedia rejected in the latest startCamera
    faceDetectorRef,    \* ref: "null" or "loaded" (the local models)
    animationFrameRef,  \* ref: 0 (null) or the loop that requested the latest frame
    frames,             \* loops (by session) with an animation frame requested
    analyzing,          \* loops (by session) awaiting analyzeFrame
    lastLabel,          \* label of the latest emotion classification
    page,               \* Index: "closed" or "open" (rendered)
    file,               \* FileUpload state: "none" (null) or the format of the selected file
    useLocalMode,       \* FileUpload state
    indexIsAnalyzing,   \* Index state isAnalyzing
    calls,              \* position of each handleAnalyze call (0: RealtimeAnalyzer's analyzeSentiment)
    handed,             \* <<the comment list the latest step handed to onAnalyzeLocal or onAnalyzeCloud>>, <<>> if it handed none
    csvText             \* <<the text the latest step gave to parseCSV>>, <<>> if it read none

localVars == <<variant, sentimentAnalyzer, lpc, comments, hasCallback, i,
               results, lastRaw, progress, trace, returned>>

fnVars == <<handler, apiKey, fpc, fnComments, fnI, fnResults, lastStatus,
            lastContent, fnTrace, response>>

faceVars == <<mounted, isActive, isLoading, faces, stream, isAnalyzing,
              analysisIntervalRef, intervals, timeouts, liveTracks, camPc,
              session, captured, inFlight, toast, lastReply,
              sessionEnd, faceVariant, cameraDenied, faceDetectorRef,
              animationFrameRef, frames, analyzing, lastLabel>>

\* state of the animation-frame loop revisions only
loopVars == <<faceDetectorRef, animationFrameRef, frames, analyzing, lastLabel>>

\* state of the interval-timer revision only
timerVars == <<isAnalyzing, analysisIntervalRef, intervals, timeouts, captured,
               inFlight, lastReply>>

\* state of one analyzeSentimentLocal run (the pipeline handle is module-level)
runVars == <<variant, lpc, comments, hasCallback, i, results, lastRaw,
             progress, trace, returned>>

pageVars == <<page, file, useLocalMode, indexIsAnalyzing, calls, handed,
              csvText>>

vars == <<localVars, fnVars, faceVars, pageVars>>

----------------------------------------------------------------------------
(* Bounds *)

MaxLocal == 2       \* longest comment list handed to analyzeSentimentLocal
MaxRemote == 21     \* longest comment list sent to the batched function
MaxPerComment == 2  \* longest comment list sent to the per-comment function
MaxSessions == 2    \* startCamera calls followed in one behaviour
MaxInFlight == 2    \* analyze-face-emotion calls followed at the same time
MaxClicks == 2      \* clicks on the Analyze button followed in one behaviour

----------------------------------------------------------------------------
(* Strings *)

UpperLetters == <<"A","B","C","D","E","F","G","H","I","J","K","L","M",
                  "N","O","P","Q","R","S","T","U","V","W","X","Y","Z">>
LowerLetters == <<"a","b","c","d","e","f","g","h","i","j","k","l","m",
                  "n","o","p","q","r","s","t","u","v","w","x","y","z">>

Chars == {UpperLetters[k] : k \in 1..26} \cup {LowerLetters[k] : k \in 1..26}
         \cup {"_", "2", " ", ".", "!", "-"}

ToLowerChar(c) ==
    IF \E k \in 1..26 : UpperLetters[k] = c
    THEN LowerLetters[CHOOSE k \in 1..26 : UpperLetters[k] = c]
    ELSE c

LowerMap == [c \in Chars |-> ToLowerChar(c)]

\* String.prototype.toLowerCase
ToLowerCase(s) == [k \in 1..Len(s) |-> LowerMap[s[k]]]

positive == <<"p","o","s","i","t","i","v","e">>
negative == <<"n","e","g","a","t","i","v","e">>
neutral == <<"n","e","u","t","r","a","l">>

Sentiments == {positive, negative, neutral}

\* Labels a sentiment-analysis pipeline can return (result[0].label)
ModelLabels ==
    { <<"P","O","S","I","T","I","V","E">>,
      <<"N","E","G","A","T","I","V","E">>,
      <<"P","o","s","i","t","i","v","e">>,
      positive, negative, neutral,
      <<"L","A","B","E","L","_","2">> }

\* result[0].score in hundredths
Scores == {39, 40, 60, 61, 69, 70}

CommentTexts == {<<"a">>, <<"b">>}

CommentLists(n) == UNION {[1..m -> CommentTexts] : m \in 0..n}

----------------------------------------------------------------------------
(* Label-to-sentiment mapping, one operator per revision *)

Threshold == 70
BandLow == 40
BandHigh == 60

\* mutant: the binary fallback of the other revisions
MapThreeClassBinary(label, score) ==
    LET l == ToLowerCase(label) IN
    IF l = positive THEN positive ELSE negative

\* 3-class revision
MapThreeClass(label, score) ==
    LET l == ToLowerCase(label) IN
    IF l = positive THEN positive
    ELSE IF l = negative THEN negative
    ELSE neutral

\* mutant: the bounds of the band are excluded
MapBandExclusive(label, score) ==
    LET l == ToLowerCase(label) IN
    IF score > BandLow /\ score < BandHigh THEN neutral
    ELSE IF l = positive THEN positive ELSE negative

\* band revision: 0.4 <= score <= 0.6 is neutral
MapBand(label, score) ==
    LET l == ToLowerCase(label) IN
    IF score >= BandLow /\ score <= BandHigh THEN neutral
    ELSE IF l = positive THEN positive ELSE negative

\* mutant: cutoff at 0.5
MapThresholdHalf(label, score) ==
    LET l == ToLowerCase(label) IN
    IF score < 50 THEN neutral
    ELSE IF l = positive THEN positive ELSE negative

\* mutant: 0.7 itself is below the cutoff
MapThresholdInclusive(label, score) ==
    LET l == ToLowerCase(label) IN
    IF score <= Threshold THEN neutral
    ELSE IF l = positive THEN positive ELSE negative

\* 0.7-threshold revision
MapThreshold(label, score) ==
    LET l == ToLowerCase(label) IN
    IF score < Threshold THEN neutral
    ELSE IF l = positive THEN positive ELSE negative

Variants == {"threeClass", "band", "threeClassNoResult", "threshold"}

MapSentiment(v, label, score) ==
    CASE v = "threeClass"         -> MapThreeClass(label, score)
      [] v = "threeClassNoResult" -> MapThreeClass(label, score)
      [] v = "band"               -> MapBand(label, score)
      [] v = "threshold"          -> MapThreshold(label, score)

\* mutant: onProgress(i, ...) instead of onProgress(i + 1, ...)
ProgressArgsOffByOne(v, current, total, analysisResult) ==
    IF v = "threeClassNoResult"
    THEN <<current - 1, total>>
    ELSE <<current - 1, total, analysisResult>>

\* the arguments onProgress is invoked with
ProgressArgs(v, current, total, analysisResult) ==
    IF v = "threeClassNoResult"
    THEN <<current, total>>
    ELSE <<current, total, analysisResult>>

----------------------------------------------------------------------------
(* analyzeSentimentLocal *)

NoRaw == [label |-> <<>>, score |-> 0]

LocalIdle ==
    /\ lpc = "idle"
    /\ comments = <<>>
    /\ hasCallback = FALSE
    /\ i = 0
    /\ results = <<>>
    /\ lastRaw = NoRaw
    /\ progress = <<>>
    /\ trace = <<>>
    /\ returned = <<>>

\* analyzeSentimentLocal(cs, onProgress) of revision v is called and awaits
\* the analyzer.  One run is followed per behaviour: the analyzer (browser)
\* and the function (server) share no state.
StartLocal(v, cs, cb) ==
    /\ lpc = "idle"
    /\ fpc = "idle"
    /\ mounted = "no"
    /\ page = "closed"
    /\ variant' = v
    /\ lpc' = "init"
    /\ comments' = cs
    /\ hasCallback' = cb
    /\ UNCHANGED <<sentimentAnalyzer, i, results, lastRaw, progress,
                   trace, returned>>
    /\ UNCHANGED <<fnVars, faceVars, pageVars>>

\* mutant: the loop stops one item early
LoopHeadShort(idx, n) == IF idx < n - 1 THEN "classifying" ELSE "returned"

\* the loop head: issue the classifier call for item i, or return
LoopHead(idx, n) == IF idx < n THEN "classifying" ELSE "returned"

\* initializeSentimentAnalyzer resolves; results = []; the loop starts
InitAnalyzerDone ==
    /\ lpc = "init"
    /\ sentimentAnalyzer' = IF sentimentAnalyzer = 0 THEN 1 ELSE sentimentAnalyzer
    /\ results' = <<>>
    /\ i' = 0
    /\ lpc' = LoopHead(0, Len(comments))
    /\ trace' = IF lpc' = "classifying" THEN <<<<"call", 0>>>> ELSE <<>>
    /\ returned' = <<>>
    /\ UNCHANGED <<variant, comments, hasCallback, lastRaw, progress>>
    /\ UNCHANGED <<fnVars, faceVars, pageVars>>

\* the pipeline fails to load: the call rejects
InitAnalyzerThrow ==
    /\ lpc = "init"
    /\ sentimentAnalyzer = 0
    /\ lpc' = "rejected"
    /\ UNCHANGED <<variant, sentimentAnalyzer, comments, hasCallback, i,
                   results, lastRaw, progress, trace, returned>>
    /\ UNCHANGED <<fnVars, faceVars, pageVars>>

\* analyzer(comment) resolves with [{label, score}]: map, push, report,
\* and go on to the next item
ClassifyReturn(label, score) ==
    /\ lpc = "classifying"
    /\ LET comment == comments[i + 1]
           sentiment == MapSentiment(variant, label, score)
           analysisResult == [comment |-> comment, sentiment |-> sentiment]
           evs == <<<<"ret", i>>>>
                  \o (IF hasCallback THEN <<<<"progress", i + 1>>>> ELSE <<>>)
                  \o (IF lpc' = "classifying" THEN <<<<"call", i + 1>>>> ELSE <<>>)
       IN /\ lpc' = LoopHead(i + 1, Len(comments))
          /\ lastRaw' = [label |-> label, score |-> score]
          /\ results' = Append(results, analysisResult)
          /\ progress' = IF hasCallback
                         THEN Append(progress,
                                ProgressArgs(variant, i + 1, Len(comments), analysisResult))
                         ELSE progress
          /\ trace' = trace \o evs
          /\ i' = i + 1
          /\ returned' = IF lpc' = "returned" THEN results' ELSE <<>>
    /\ UNCHANGED <<variant, sentimentAnalyzer, comments, hasCallback>>
    /\ UNCHANGED <<fnVars, faceVars, pageVars>>

\* mutant: the throw is swallowed and the results so far are returned
ClassifyThrowPartial ==
    /\ lpc = "classifying"
    /\ lpc' = "rejected"
    /\ trace' = Append(trace, <<"throw", i>>)
    /\ returned' = results
    /\ UNCHANGED <<variant, sentimentAnalyzer, comments, hasCallback, i,
                   results, lastRaw, progress>>
    /\ UNCHANGED <<fnVars, faceVars, pageVars>>

\* analyzer(comment) throws: the call rejects
ClassifyThrow ==
    /\ lpc = "classifying"
    /\ lpc' = "rejected"
    /\ trace' = Append(trace, <<"throw", i>>)
    /\ UNCHANGED <<variant, sentimentAnalyzer, comments, hasCallback, i,
                   results, lastRaw, progress, returned>>
    /\ UNCHANGED <<fnVars, faceVars, pageVars>>


----------------------------------------------------------------------------
(* Upstream response content of the batched function, as a token sequence. *)
(* Only the "[" and "]" tokens contain bracket characters.                  *)

LB == <<"[">>
RB == <<"]">>
CM == <<",">>
WS == <<"ws">>       \* white space
TXT == <<"txt">>      \* explanatory text, no JSON
FENCE == <<"fence">>    \* a markdown code fence line
NUL == <<"null">>     \* the JSON literal null
NUM == <<"num">>      \* a JSON number

\* a JSON object; sv is its sentiment property
Obj(sv) == <<"obj", sv>>
Absent == <<"absent">>
Str(chars) == <<"str", chars>>

eP == Obj(Str(positive))
eN == Obj(Str(negative))
eU == Obj(Str(neutral))
ePU == Obj(Str(<<"P","O","S","I","T","I","V","E">>))
eBad == Obj(Str(<<"b","a","d">>))
eNone == Obj(Absent)
eEmpty == Obj(Str(<<>>))
eNum == Obj(NUM)

SkipWs(toks, p) ==
    IF \E q \in p..Len(toks) : toks[q] # WS
    THEN CHOOSE q \in p..Len(toks) :
            /\ toks[q] # WS
            /\ \A r \in p..(q - 1) : toks[r] = WS
    ELSE Len(toks) + 1

\* String.prototype.trim, w being the white space element
TrimBy(str, w) ==
    IF \A q \in 1..Len(str) : str[q] = w THEN <<>>
    ELSE LET a == CHOOSE q \in 1..Len(str) :
                     /\ str[q] # w
                     /\ \A r \in 1..(q - 1) : str[r] = w
             b == CHOOSE q \in 1..Len(str) :
                     /\ str[q] # w
                     /\ \A r \in (q + 1)..Len(str) : str[r] = w
         IN SubSeq(str, a, b)

Trim(toks) == TrimBy(toks, WS)

ParseFail == [ok |-> FALSE, v |-> <<"undefined">>, p |-> 0]

RECURSIVE ParseValue(_, _), ParseElems(_, _, _)

\* one JSON value starting at position p
ParseValue(toks, p) ==
    LET q == SkipWs(toks, p) IN
    IF q > Len(toks) THEN ParseFail
    ELSE LET t == toks[q] IN
         IF t[1] \in {"obj", "null", "num"} THEN [ok |-> TRUE, v |-> t, p |-> q + 1]
         ELSE IF t = LB
              THEN LET r == SkipWs(toks, q + 1) IN
                   IF r <= Len(toks) /\ toks[r] = RB
                   THEN [ok |-> TRUE, v |-> <<"arr", <<>>>>, p |-> r + 1]
                   ELSE ParseElems(toks, r, <<>>)
              ELSE ParseFail

\* the elements of an array, after "[" or ","
ParseElems(toks, p, acc) ==
    LET r == ParseValue(toks, p) IN
    IF ~r.ok THEN ParseFail
    ELSE LET q == SkipWs(toks, r.p) IN
         IF q > Len(toks) THEN ParseFail
         ELSE IF toks[q] = RB
              THEN [ok |-> TRUE, v |-> <<"arr", Append(acc, r.v)>>, p |-> q + 1]
              ELSE IF toks[q] = CM
                   THEN ParseElems(toks, q + 1, Append(acc, r.v))
                   ELSE ParseFail

\* JSON.parse: ok = FALSE stands for the SyntaxError
JSONParse(toks) ==
    LET r == ParseValue(toks, 1) IN
    IF r.ok /\ SkipWs(toks, r.p) > Len(toks) THEN r ELSE ParseFail

\* content.match(/\[[\s\S]*\]/): from the first "[" to the last "]"
HasMatch(content) ==
    \E a, b \in 1..Len(content) :
        /\ content[a] = LB /\ content[b] = RB /\ a < b

JsonMatch(content) ==
    LET a == CHOOSE x \in 1..Len(content) :
                /\ content[x] = LB
                /\ \A y \in 1..(x - 1) : content[y] # LB
        b == CHOOSE x \in 1..Len(content) :
                /\ content[x] = RB
                /\ \A y \in (x + 1)..Len(content) : content[y] # RB
    IN SubSeq(content, a, b)

\* mutant: no extraction, the whole content is parsed
JsonStrWhole(content) == content

\* jsonMatch ? jsonMatch[0] : content
JsonStr(content) == IF HasMatch(content) THEN JsonMatch(content) ELSE content

\* the try/catch around the parse: the parsed value, or the all-neutral fallback
ParseSentiments(content, batch) ==
    LET r == JSONParse(JsonStr(content)) IN
    IF r.ok THEN r.v
    ELSE <<"arr", [k \in 1..Len(batch) |-> eU]>>

----------------------------------------------------------------------------
(* analyze-sentiment, batched revision *)

batchSize == 10
DelayMs == 1000

TypeError == [threw |-> TRUE, s |-> <<>>]
Value(chars) == [threw |-> FALSE, s |-> chars]

\* el?.sentiment?.toLowerCase() || 'neutral' for one array element
ElemSentiment(el) ==
    IF el[1] # "obj" THEN Value(neutral)
    ELSE LET sv == el[2] IN
         IF sv[1] = "str"
         THEN (IF sv[2] = <<>> THEN Value(neutral) ELSE Value(ToLowerCase(sv[2])))
         ELSE IF sv[1] = "absent" THEN Value(neutral)
         ELSE TypeError   \* toLowerCase is not a function

\* sentiments[idx]?.sentiment?.toLowerCase() || 'neutral'  (idx 0-based)
RawSentiment(sentiments, idx) ==
    IF sentiments[1] = "null" THEN TypeError   \* cannot read properties of null
    ELSE IF sentiments[1] = "arr"
         THEN (IF idx + 1 <= Len(sentiments[2])
               THEN ElemSentiment(sentiments[2][idx + 1])
               ELSE Value(neutral))
         ELSE Value(neutral)

\* mutant: the label is passed through
ValidatedPassThrough(sentiment) == sentiment

\* ['positive', 'negative', 'neutral'].includes(sentiment) ? sentiment : 'neutral'
Validated(sentiment) == IF sentiment \in Sentiments THEN sentiment ELSE neutral

\* mutant: comments.slice(i, batchSize)
BatchSliceToSize(cs, idx) ==
    SubSeq(cs, idx + 1, IF batchSize < Len(cs) THEN batchSize ELSE Len(cs))

\* comments.slice(i, i + batchSize)
Batch(cs, idx) ==
    SubSeq(cs, idx + 1, IF idx + batchSize < Len(cs) THEN idx + batchSize ELSE Len(cs))

\* batch.forEach(...): the entries pushed for one batch
BatchResults(batch, sentiments) ==
    [k \in 1..Len(batch) |->
        [comment |-> batch[k],
         sentiment |-> Validated(RawSentiment(sentiments, k - 1).s)]]

\* forEach throws at the first element whose lookup throws
BatchThrows(batch, sentiments) ==
    \E k \in 1..Len(batch) : RawSentiment(sentiments, k - 1).threw

\* the entries pushed before forEach threw
PushedBeforeThrow(batch, sentiments) ==
    LET k0 == CHOOSE k \in 1..Len(batch) :
                 /\ RawSentiment(sentiments, k - 1).threw
                 /\ \A j \in 1..(k - 1) : ~RawSentiment(sentiments, j - 1).threw
    IN SubSeq(BatchResults(batch, sentiments), 1, k0 - 1)

RateLimitMsg == <<"Rate limit exceeded. Please try again in a moment or upload fewer comments.">>
UsageLimitMsg == <<"AI usage limit reached. Please add credits to continue.">>
ApiErrorMsg(status) == <<"AI API error: ", status>>
NoKeyMsg == <<"LOVABLE_API_KEY not configured">>
TypeErrorMsg == <<"TypeError">>

\* mutant: one message for every status
StatusErrorGeneric(status) == ApiErrorMsg(status)

\* the message thrown for a non-success upstream status
StatusError(status) ==
    IF status = 429 THEN RateLimitMsg
    ELSE IF status = 402 THEN UsageLimitMsg
    ELSE ApiErrorMsg(status)

NoResponse == [status |-> 0, kind |-> "none", results |-> <<>>, error |-> <<>>]
ResultsResponse(rs) == [status |-> 200, kind |-> "results", results |-> rs, error |-> <<>>]
\* mutant: the error response carries the results gathered so far
ErrorResponsePartial(msg) == [status |-> 500, kind |-> "error", results |-> fnResults, error |-> msg]
ErrorResponse(msg) == [status |-> 500, kind |-> "error", results |-> <<>>, error |-> msg]

FnIdle ==
    /\ fpc = "idle"
    /\ fnComments = <<>>
    /\ fnI = 0
    /\ fnResults = <<>>
    /\ lastStatus = 0
    /\ lastContent = <<>>
    /\ fnTrace = <<>>
    /\ response = NoResponse

\* the request arrives: read the body, check the key, enter the loop
ServeBatched(cs, key) ==
    /\ fpc = "idle"
    /\ lpc = "idle"
    /\ mounted = "no"
    /\ page = "closed"
    /\ handler' = "batched"
    /\ apiKey' = key
    /\ fnComments' = cs
    /\ fnResults' = <<>>
    /\ fnI' = 0
    /\ IF ~key
       THEN /\ fpc' = "responded"
            /\ response' = ErrorResponse(NoKeyMsg)
            /\ fnTrace' = fnTrace
       ELSE IF 0 < Len(cs)
            THEN /\ fpc' = "fetching"
                 /\ fnTrace' = Append(fnTrace, <<"request", Batch(cs, 0)>>)
                 /\ response' = response
            ELSE /\ fpc' = "responded"
                 /\ response' = ResultsResponse(<<>>)
                 /\ fnTrace' = fnTrace
    /\ UNCHANGED <<lastStatus, lastContent>>
    /\ UNCHANGED <<localVars, faceVars, pageVars>>

\* the upstream answers with a non-success status: throw, answer 500
FetchFailed(status) ==
    /\ handler = "batched"
    /\ fpc = "fetching"
    /\ status # 200
    /\ fpc' = "responded"
    /\ response' = ErrorResponse(StatusError(status))
    /\ lastStatus' = status
    /\ UNCHANGED <<handler, apiKey, fnComments, fnI, fnResults, lastContent, fnTrace>>
    /\ UNCHANGED <<localVars, faceVars, pageVars>>

\* mutant: <= for <, a delay also after a last full batch
NeedsDelayInclusive(idx, n) == idx + batchSize <= n

\* if (i + batchSize < comments.length)
NeedsDelay(idx, n) == idx + batchSize < n

\* the upstream answers 200 with this content: parse, map the batch, then
\* wait before the next batch or answer with the results
FetchOk(raw) ==
    /\ handler = "batched"
    /\ fpc = "fetching"
    /\ LET content == Trim(raw)
           batch == Batch(fnComments, fnI)
           sentiments == ParseSentiments(content, batch)
       IN /\ lastStatus' = 200
          /\ lastContent' = content
          /\ IF BatchThrows(batch, sentiments)
             THEN /\ fpc' = "responded"
                  /\ response' = ErrorResponse(TypeErrorMsg)
                  /\ fnResults' = fnResults \o PushedBeforeThrow(batch, sentiments)
                  /\ UNCHANGED fnI
             ELSE /\ fnResults' = fnResults \o BatchResults(batch, sentiments)
                  /\ IF NeedsDelay(fnI, Len(fnComments))
                     THEN /\ fpc' = "delaying"
                          /\ UNCHANGED <<fnI, response>>
                     ELSE /\ fpc' = "responded"
                          /\ fnI' = fnI + batchSize
                          /\ response' = ResultsResponse(fnResults')
    /\ fnTrace' = IF fpc' = "delaying" THEN Append(fnTrace, <<"delay", DelayMs>>) ELSE fnTrace
    /\ UNCHANGED <<handler, apiKey, fnComments>>
    /\ UNCHANGED <<localVars, faceVars, pageVars>>

\* mutant: the next two batches are requested at once
DelayElapsedTwoRequests ==
    /\ handler = "batched"
    /\ fpc = "delaying"
    /\ fnI' = fnI + batchSize
    /\ IF fnI' < Len(fnComments)
       THEN /\ fpc' = "fetching"
            /\ fnTrace' = fnTrace \o <<<<"request", Batch(fnComments, fnI')>>,
                                        <<"request", Batch(fnComments, fnI' + batchSize)>>>>
            /\ response' = response
       ELSE /\ fpc' = "responded"
            /\ fnTrace' = fnTrace
            /\ response' = ResultsResponse(fnResults)
    /\ UNCHANGED <<handler, apiKey, fnComments, fnResults, lastStatus, lastContent>>
    /\ UNCHANGED <<localVars, faceVars, pageVars>>

\* the delay has elapsed: i += batchSize, the loop condition is tested and
\* the next batch is requested
DelayElapsed ==
    /\ handler = "batched"
    /\ fpc = "delaying"
    /\ fnI' = fnI + batchSize
    /\ IF fnI' < Len(fnComments)
       THEN /\ fpc' = "fetching"
            /\ fnTrace' = Append(fnTrace, <<"request", Batch(fnComments, fnI')>>)
            /\ response' = response
       ELSE /\ fpc' = "responded"
            /\ fnTrace' = fnTrace
            /\ response' = ResultsResponse(fnResults)
    /\ UNCHANGED <<handler, apiKey, fnComments, fnResults, lastStatus, lastContent>>
    /\ UNCHANGED <<localVars, faceVars, pageVars>>

----------------------------------------------------------------------------
(* analyze-sentiment, per-comment revision: one request per comment, the   *)
(* content is a one-word answer (a character string)                       *)

\* String.prototype.includes
Includes(str, sub) ==
    \E a \in 0..(Len(str) - Len(sub)) : SubSeq(str, a + 1, a + Len(sub)) = sub

\* sentiment.includes('positive') ? 'positive' : sentiment.includes('negative') ? ...
MapReply(content) ==
    LET sentiment == TrimBy(ToLowerCase(content), " ") IN
    IF Includes(sentiment, positive) THEN positive
    ELSE IF Includes(sentiment, negative) THEN negative
    ELSE neutral

ServePerComment(cs, key) ==
    /\ fpc = "idle"
    /\ lpc = "idle"
    /\ mounted = "no"
    /\ page = "closed"
    /\ handler' = "perComment"
    /\ apiKey' = key
    /\ fnComments' = cs
    /\ fnResults' = <<>>
    /\ fnI' = 0
    /\ IF ~key
       THEN /\ fpc' = "responded"
            /\ response' = ErrorResponse(NoKeyMsg)
            /\ fnTrace' = fnTrace
       ELSE IF 0 < Len(cs)
            THEN /\ fpc' = "fetching"
                 /\ fnTrace' = Append(fnTrace, <<"request", <<cs[1]>>>>)
                 /\ response' = response
            ELSE /\ fpc' = "responded"
                 /\ response' = ResultsResponse(<<>>)
                 /\ fnTrace' = fnTrace
    /\ UNCHANGED <<lastStatus, lastContent>>
    /\ UNCHANGED <<localVars, faceVars, pageVars>>

\* a non-success status: throw new Error(`AI API error: ${response.status}`)
ReplyFailed(status) ==
    /\ handler = "perComment"
    /\ fpc = "fetching"
    /\ status # 200
    /\ fpc' = "responded"
    /\ response' = ErrorResponse(ApiErrorMsg(status))
    /\ lastStatus' = status
    /\ UNCHANGED <<handler, apiKey, fnComments, fnI, fnResults, lastContent, fnTrace>>
    /\ UNCHANGED <<localVars, faceVars, pageVars>>

\* a 200 answer: push the mapped sentiment, request the next comment
ReplyOk(content) ==
    /\ handler = "perComment"
    /\ fpc = "fetching"
    /\ lastStatus' = 200
    /\ lastContent' = content
    /\ fnResults' = Append(fnResults,
                      [comment |-> fnComments[fnI + 1], sentiment |-> MapReply(content)])
    /\ fnI' = fnI + 1
    /\ IF fnI + 1 < Len(fnComments)
       THEN /\ fpc' = "fetching"
            /\ fnTrace' = Append(fnTrace, <<"request", <<fnComments[fnI + 2]>>>>)
            /\ response' = response
       ELSE /\ fpc' = "responded"
            /\ fnTrace' = fnTrace
            /\ response' = ResultsResponse(fnResults')
    /\ UNCHANGED <<handler, apiKey, fnComments>>
    /\ UNCHANGED <<localVars, faceVars, pageVars>>

----------------------------------------------------------------------------
(* FaceSentimentDetector: camera session, interval timer, analyzeFrame.    *)
(* A function of the component body sees the state of the render it was    *)
(* created in: startCamera, startAnalysis and the analyzeFrame that the    *)
(* timers call belong to the render in which the button was clicked, the   *)
(* effect cleanup belongs to the first render.  Refs are read live.        *)

Sessions == 1..MaxSessions

\* "timer": analyze-face-emotion on an interval timer; "remoteEmotion": local
\* face detector, analyze-face-emotion per face; "localEmotion": local face
\* detector and local emotion classifier
FaceVariants == {"timer", "remoteEmotion", "localEmotion"}
LoopVariants == {"remoteEmotion", "localEmotion"}

\* confidence: 0.85, in hundredths
Confidence == 85

\* replies of supabase.functions.invoke('analyze-face-emotion'): {data, error}
Reply(threw, error, rateLimited, paymentRequired, sentiment) ==
    [threw |-> threw, error |-> error, rateLimited |-> rateLimited,
     paymentRequired |-> paymentRequired, sentiment |-> sentiment]

NoReply == Reply(FALSE, FALSE, FALSE, FALSE, "none")
Emotions == {"happy", "angry"}

FaceReplies ==
    { Reply(TRUE, FALSE, FALSE, FALSE, ""),      \* the call rejects
      Reply(FALSE, TRUE, FALSE, FALSE, ""),      \* error set, no data
      Reply(FALSE, FALSE, TRUE, FALSE, ""),      \* data.rateLimited
      Reply(FALSE, FALSE, FALSE, TRUE, ""),      \* data.paymentRequired
      Reply(FALSE, FALSE, FALSE, FALSE, "") }    \* data without a sentiment
    \cup {Reply(FALSE, FALSE, FALSE, FALSE, e) : e \in Emotions}

\* calls in flight, over all sessions
InFlightCount ==
    Cardinality({c \in Sessions \X (1..MaxInFlight) : c[2] <= inFlight[c[1]]})

FaceIdle ==
    /\ isActive = FALSE
    /\ isLoading = FALSE
    /\ faces = <<>>
    /\ stream = 0
    /\ isAnalyzing = FALSE
    /\ analysisIntervalRef = 0
    /\ intervals = {}
    /\ timeouts = {}
    /\ liveTracks = {}
    /\ camPc = "idle"
    /\ session = 0
    /\ captured = [s \in Sessions |-> FALSE]
    /\ inFlight = [s \in Sessions |-> 0]
    /\ toast = "none"
    /\ lastReply = NoReply
    /\ sessionEnd = "none"
    /\ cameraDenied = FALSE
    /\ faceDetectorRef = "null"
    /\ animationFrameRef = 0
    /\ frames = {}
    /\ analyzing = {}
    /\ lastLabel = <<>>

\* the component is rendered for the first time.  One subsystem is followed
\* per behaviour.
Mount(v) ==
    /\ mounted = "no"
    /\ page = "closed"
    /\ lpc = "idle"
    /\ fpc = "idle"
    /\ mounted' = "yes"
    /\ faceVariant' = v
    /\ UNCHANGED <<isActive, isLoading, faces, stream, isAnalyzing,
                   analysisIntervalRef, intervals, timeouts, liveTracks, camPc,
                   session, captured, inFlight, toast, lastReply, sessionEnd>>
    /\ UNCHANGED <<cameraDenied, loopVars>>
    /\ UNCHANGED <<localVars, fnVars, pageVars>>

\* the button shows "Start Camera" and is clicked: startCamera runs up to
\* the await of getUserMedia
StartCamera ==
    /\ mounted = "yes"
    /\ faceVariant = "timer"
    /\ cameraDenied' = FALSE
    /\ ~isActive
    /\ ~isLoading
    /\ camPc = "idle"
    /\ session < MaxSessions
    /\ session' = session + 1
    /\ captured' = [captured EXCEPT ![session + 1] = isAnalyzing]
    /\ isLoading' = TRUE
    /\ camPc' = "acquiring"
    /\ sessionEnd' = "none"
    /\ UNCHANGED <<mounted, isActive, faces, stream, isAnalyzing,
                   analysisIntervalRef, intervals, timeouts, liveTracks,
                   inFlight, toast, lastReply>>
    /\ UNCHANGED <<faceVariant, loopVars>>
    /\ UNCHANGED <<localVars, fnVars, pageVars>>

\* getUserMedia resolves: setStream, srcObject and onloadedmetadata when the
\* video element is there, setIsActive(true), toast
GetUserMediaResolved ==
    /\ faceVariant = "timer"
    /\ camPc = "acquiring"
    /\ liveTracks' = liveTracks \cup {session}
    /\ toast' = "Camera Started"
    /\ IF mounted = "yes"
       THEN /\ stream' = session
            /\ isActive' = TRUE
            /\ camPc' = "metadata"
       ELSE /\ camPc' = "idle"
            /\ UNCHANGED <<stream, isActive>>
    /\ UNCHANGED <<mounted, isLoading, faces, isAnalyzing, analysisIntervalRef,
                   intervals, timeouts, session, captured, inFlight, lastReply,
                   sessionEnd>>
    /\ UNCHANGED <<faceVariant, cameraDenied, loopVars>>
    /\ UNCHANGED <<localVars, fnVars, pageVars>>

\* getUserMedia rejects: the catch toasts and clears isLoading
GetUserMediaRejected ==
    /\ faceVariant = "timer"
    /\ camPc = "acquiring"
    /\ cameraDenied' = TRUE
    /\ camPc' = "idle"
    /\ toast' = "Camera Error"
    /\ isLoading' = (IF mounted = "yes" THEN FALSE ELSE isLoading)
    /\ UNCHANGED <<mounted, isActive, faces, stream, isAnalyzing,
                   analysisIntervalRef, intervals, timeouts, liveTracks,
                   session, captured, inFlight, lastReply, sessionEnd>>
    /\ UNCHANGED <<faceVariant, loopVars>>
    /\ UNCHANGED <<localVars, fnVars, pageVars>>

\* onloadedmetadata: play, setIsLoading(false), startAnalysis(): the
\* interval timer goes into the ref and the first analysis is set for 1 s
OnLoadedMetadata ==
    /\ faceVariant = "timer"
    /\ camPc = "metadata"
    /\ camPc' = "idle"
    /\ IF mounted = "yes"
       THEN /\ isLoading' = FALSE
            /\ analysisIntervalRef' = session
            /\ intervals' = intervals \cup {session}
            /\ timeouts' = timeouts \cup {session}
       ELSE UNCHANGED <<isLoading, analysisIntervalRef, intervals, timeouts>>
    /\ UNCHANGED <<mounted, isActive, faces, stream, isAnalyzing, liveTracks,
                   session, captured, inFlight, toast, lastReply, sessionEnd>>
    /\ UNCHANGED <<faceVariant, cameraDenied, loopVars>>
    /\ UNCHANGED <<localVars, fnVars, pageVars>>

\* the timer part of stopCamera: clearInterval of the ref, ref = null
ClearedIntervals == IF analysisIntervalRef # 0 THEN intervals \ {analysisIntervalRef} ELSE intervals

\* the tracks left live by stopCamera in a closure that sees this stream
TracksAfterStop(seen) == IF seen # 0 THEN liveTracks \ {seen} ELSE liveTracks

\* the button shows "Stop Camera" and is clicked: stopCamera of the current render
StopCamera ==
    /\ mounted = "yes"
    /\ faceVariant = "timer"
    /\ isActive
    /\ ~isLoading
    /\ intervals' = ClearedIntervals
    /\ analysisIntervalRef' = 0
    /\ liveTracks' = TracksAfterStop(stream)
    /\ stream' = 0
    /\ isActive' = FALSE
    /\ faces' = <<>>
    /\ isLoading' = FALSE
    /\ isAnalyzing' = FALSE
    /\ sessionEnd' = "stop"
    /\ UNCHANGED <<mounted, timeouts, camPc, session, captured, inFlight,
                   toast, lastReply>>
    /\ UNCHANGED <<faceVariant, cameraDenied, loopVars>>
    /\ UNCHANGED <<localVars, fnVars, pageVars>>

\* the component unmounts: the effect cleanup calls the stopCamera of the
\* first render, whose stream is the initial null; the state setters of an
\* unmounted component do nothing
Unmount ==
    /\ mounted = "yes"
    /\ faceVariant = "timer"
    /\ mounted' = "gone"
    /\ intervals' = ClearedIntervals
    /\ analysisIntervalRef' = 0
    /\ liveTracks' = TracksAfterStop(0)
    /\ sessionEnd' = (IF isActive THEN "unmount" ELSE sessionEnd)
    /\ UNCHANGED <<isActive, isLoading, faces, stream, isAnalyzing, timeouts,
                   camPc, session, captured, inFlight, toast, lastReply>>
    /\ UNCHANGED <<faceVariant, cameraDenied, loopVars>>
    /\ UNCHANGED <<localVars, fnVars, pageVars>>

\* analyzeFrame of session s up to its await: the guards on the refs, on
\* readyState and on isAnalyzing, then setIsAnalyzing(true) and the call
AnalyzeFrame(s, ready) ==
    /\ IF mounted = "yes" /\ ready /\ ~captured[s]
       THEN /\ InFlightCount < MaxInFlight
            /\ isAnalyzing' = TRUE
            /\ inFlight' = [inFlight EXCEPT ![s] = @ + 1]
       ELSE UNCHANGED <<isAnalyzing, inFlight>>

\* the 1 s timeout set by startAnalysis fires
FirstAnalysis(s, ready) ==
    /\ s \in timeouts
    /\ timeouts' = timeouts \ {s}
    /\ AnalyzeFrame(s, ready)
    /\ UNCHANGED <<mounted, isActive, isLoading, faces, stream,
                   analysisIntervalRef, intervals, liveTracks, camPc, session,
                   captured, toast, lastReply, sessionEnd>>
    /\ UNCHANGED <<faceVariant, cameraDenied, loopVars>>
    /\ UNCHANGED <<localVars, fnVars, pageVars>>

\* the 5 s interval timer fires
IntervalTick(s, ready) ==
    /\ s \in intervals
    /\ AnalyzeFrame(s, ready)
    /\ UNCHANGED <<mounted, isActive, isLoading, faces, stream,
                   analysisIntervalRef, intervals, timeouts, liveTracks, camPc,
                   session, captured, toast, lastReply, sessionEnd>>
    /\ UNCHANGED <<faceVariant, cameraDenied, loopVars>>
    /\ UNCHANGED <<localVars, fnVars, pageVars>>

\* mutant: only an error suppresses the result
SuppressedOnErrorOnly(reply) == reply.error

\* if (error || emotionData?.rateLimited || emotionData?.paymentRequired)
Suppressed(reply) == reply.error \/ reply.rateLimited \/ reply.paymentRequired

\* faces after analyzeFrame handled this reply
FacesAfter(reply) ==
    IF reply.threw \/ Suppressed(reply) THEN faces
    ELSE IF reply.sentiment # ""
         THEN <<[sentiment |-> reply.sentiment, confidence |-> Confidence]>>
         ELSE <<>>

\* a call of session s returns: the rest of analyzeFrame, its finally included
InvokeReturn(s, reply) ==
    /\ inFlight[s] > 0
    /\ inFlight' = [inFlight EXCEPT ![s] = @ - 1]
    /\ lastReply' = (IF mounted = "yes" THEN reply ELSE lastReply)
    /\ toast' = IF ~reply.threw /\ Suppressed(reply) /\ reply.rateLimited
                THEN "Rate Limited" ELSE toast
    /\ IF mounted = "yes"
       THEN /\ faces' = FacesAfter(reply)
            /\ isAnalyzing' = FALSE
       ELSE UNCHANGED <<faces, isAnalyzing>>
    /\ UNCHANGED <<mounted, isActive, isLoading, stream, analysisIntervalRef,
                   intervals, timeouts, liveTracks, camPc, session, captured, sessionEnd>>
    /\ UNCHANGED <<faceVariant, cameraDenied, loopVars>>
    /\ UNCHANGED <<localVars, fnVars, pageVars>>

----------------------------------------------------------------------------
(* FaceSentimentDetector, the revisions with a local face detector: an     *)
(* animation-frame loop per session calls analyzeFrame; one detected face  *)
(* per frame is followed.                                                  *)

\* labels of the local emotion classifier
EmotionLabels ==
    { <<"h","a","p","p","y">>, <<"H","a","p","p","y">>, <<"J","O","Y">>,
      <<"s","m","i","l","i","n","g">>, <<"s","a","d">>, <<"A","n","g","r","y">>,
      <<"f","e","a","r">>, <<"d","i","s","g","u","s","t">>,
      <<"n","e","u","t","r","a","l">>, <<"s","u","r","p","r","i","s","e">>,
      <<"u","n","h","a","p","p","y">>, <<"s","a","d"," ","s","m","i","l","e">>,
      <<>> }

HappyWords == {<<"h","a","p","p","y">>, <<"j","o","y">>, <<"s","m","i","l","e">>}
SadWords == {<<"s","a","d">>, <<"a","n","g","r","y">>, <<"f","e","a","r">>,
             <<"d","i","s","g","u","s","t">>}

\* mutant: the sad keywords are tested first
MapEmotionSadFirst(label) ==
    LET lowerLabel == ToLowerCase(label) IN
    IF \E w \in SadWords : Includes(lowerLabel, w) THEN "sad"
    ELSE IF \E w \in HappyWords : Includes(lowerLabel, w) THEN "happy"
    ELSE "neutral"

\* mapEmotionToSentiment
MapEmotionToSentiment(label) ==
    LET lowerLabel == ToLowerCase(label) IN
    IF \E w \in HappyWords : Includes(lowerLabel, w) THEN "happy"
    ELSE IF \E w \in SadWords : Includes(lowerLabel, w) THEN "sad"
    ELSE "neutral"

\* what one analyzeFrame run found
Outcome(kind, label) == [kind |-> kind, label |-> label]

\* the outcomes of analyzeFrame in revision v: the detector throws, no
\* person is detected, the emotion step gives nothing for the face, or it
\* gives a label
FrameOutcomes(v) ==
    IF v = "localEmotion"
    THEN {Outcome("throw", <<>>), Outcome("noPerson", <<>>), Outcome("noEmotion", <<>>)}
         \cup {Outcome("label", l) : l \in EmotionLabels}
    ELSE {Outcome("throw", ""), Outcome("noPerson", ""), Outcome("noEmotion", "")}
         \cup {Outcome("raw", e) : e \in Emotions}

\* emotions[0].score of the local classifier, in hundredths
EmotionScore == 90

\* faces after analyzeFrame finished with this outcome
FacesOf(outcome) ==
    IF outcome.kind = "throw" THEN faces
    ELSE IF outcome.kind = "label"
    THEN <<[sentiment |-> MapEmotionToSentiment(outcome.label), confidence |-> EmotionScore]>>
    ELSE IF outcome.kind = "raw"
    THEN <<[sentiment |-> outcome.label, confidence |-> Confidence]>>
    ELSE <<>>

\* the button shows "Start Camera" and is clicked: setIsLoading(true), then
\* initModels, which loads the models unless they are loaded
StartCameraLoop ==
    /\ mounted = "yes"
    /\ faceVariant \in LoopVariants
    /\ ~isActive
    /\ ~isLoading
    /\ camPc = "idle"
    /\ session < MaxSessions
    /\ session' = session + 1
    /\ isLoading' = TRUE
    /\ camPc' = (IF faceDetectorRef = "null" THEN "loading" ELSE "acquiring")
    /\ sessionEnd' = "none"
    /\ cameraDenied' = FALSE
    /\ UNCHANGED <<mounted, isActive, faces, stream, liveTracks, toast, faceVariant>>
    /\ UNCHANGED <<timerVars, loopVars>>
    /\ UNCHANGED <<localVars, fnVars, pageVars>>

\* the pipeline load of initModels settles: the ref is set on success, the
\* finally clears isLoading; startCamera goes on to getUserMedia either way
InitModelsSettled(ok) ==
    /\ faceVariant \in LoopVariants
    /\ camPc = "loading"
    /\ camPc' = "acquiring"
    /\ faceDetectorRef' = (IF ok THEN "loaded" ELSE faceDetectorRef)
    /\ toast' = IF ~ok THEN "Model Loading Failed"
                ELSE IF faceVariant = "remoteEmotion" THEN "Models Loaded"
                ELSE toast
    /\ isLoading' = (IF mounted = "yes" THEN FALSE ELSE isLoading)
    /\ UNCHANGED <<mounted, isActive, faces, stream, liveTracks, session,
                   sessionEnd, faceVariant, cameraDenied, animationFrameRef,
                   frames, analyzing, lastLabel>>
    /\ UNCHANGED timerVars
    /\ UNCHANGED <<localVars, fnVars, pageVars>>

\* getUserMedia resolves: setStream, srcObject and onloadedmetadata when the
\* video element is there, setIsActive(true)
GetUserMediaResolvedLoop ==
    /\ faceVariant \in LoopVariants
    /\ camPc = "acquiring"
    /\ liveTracks' = liveTracks \cup {session}
    /\ IF mounted = "yes"
       THEN /\ stream' = session
            /\ isActive' = TRUE
            /\ camPc' = "metadata"
       ELSE /\ camPc' = "idle"
            /\ UNCHANGED <<stream, isActive>>
    /\ UNCHANGED <<mounted, isLoading, faces, session, toast, sessionEnd,
                   faceVariant, cameraDenied>>
    /\ UNCHANGED <<timerVars, loopVars>>
    /\ UNCHANGED <<localVars, fnVars, pageVars>>

\* mutant: the catch does not clear isLoading
GetUserMediaRejectedKeepsLoading ==
    /\ faceVariant \in LoopVariants
    /\ camPc = "acquiring"
    /\ camPc' = "idle"
    /\ toast' = "Unable to access camera"
    /\ cameraDenied' = TRUE
    /\ UNCHANGED <<mounted, isActive, isLoading, faces, stream, liveTracks, session,
                   sessionEnd, faceVariant>>
    /\ UNCHANGED <<timerVars, loopVars>>
    /\ UNCHANGED <<localVars, fnVars, pageVars>>

\* getUserMedia rejects: the catch alerts and clears isLoading
GetUserMediaRejectedLoop ==
    /\ faceVariant \in LoopVariants
    /\ camPc = "acquiring"
    /\ camPc' = "idle"
    /\ toast' = "Unable to access camera"
    /\ cameraDenied' = TRUE
    /\ isLoading' = (IF mounted = "yes" THEN FALSE ELSE isLoading)
    /\ UNCHANGED <<mounted, isActive, faces, stream, liveTracks, session,
                   sessionEnd, faceVariant>>
    /\ UNCHANGED <<timerVars, loopVars>>
    /\ UNCHANGED <<localVars, fnVars, pageVars>>

\* detectAndAnalyze of loop s calls analyzeFrame: past its guards it awaits
\* the detector; stopped by a guard it returns and the next frame is requested
DetectAndAnalyze(s, ready, pending) ==
    IF mounted = "yes" /\ faceDetectorRef = "loaded" /\ ready
    THEN /\ analyzing' = analyzing \cup {s}
         /\ frames' = pending
         /\ UNCHANGED animationFrameRef
    ELSE /\ frames' = pending \cup {s}
         /\ animationFrameRef' = s
         /\ UNCHANGED analyzing

\* onloadedmetadata: play, startAnalysis(): the loop of this session starts
OnLoadedMetadataLoop(ready) ==
    /\ faceVariant \in LoopVariants
    /\ camPc = "metadata"
    /\ camPc' = "idle"
    /\ IF mounted = "yes"
       THEN DetectAndAnalyze(session, ready, frames)
       ELSE UNCHANGED <<frames, analyzing, animationFrameRef>>
    /\ UNCHANGED <<mounted, isActive, isLoading, faces, stream, liveTracks,
                   session, toast, sessionEnd, faceVariant, cameraDenied,
                   faceDetectorRef, lastLabel>>
    /\ UNCHANGED timerVars
    /\ UNCHANGED <<localVars, fnVars, pageVars>>

\* the animation frame requested by loop s fires
FrameFires(s, ready) ==
    /\ s \in frames
    /\ DetectAndAnalyze(s, ready, frames \ {s})
    /\ UNCHANGED <<mounted, isActive, isLoading, faces, stream, liveTracks,
                   camPc, session, toast, sessionEnd, faceVariant, cameraDenied,
                   faceDetectorRef, lastLabel>>
    /\ UNCHANGED timerVars
    /\ UNCHANGED <<localVars, fnVars, pageVars>>

\* analyzeFrame of loop s finishes in revision v: setFaces, then the loop
\* requests the next frame
AnalyzeFrameDone(s, v, outcome) ==
    /\ s \in analyzing
    /\ faceVariant = v
    /\ analyzing' = analyzing \ {s}
    /\ frames' = frames \cup {s}
    /\ animationFrameRef' = s
    /\ faces' = (IF mounted = "yes" THEN FacesOf(outcome) ELSE faces)
    /\ lastLabel' = (IF outcome.kind = "label" THEN outcome.label ELSE lastLabel)
    /\ UNCHANGED <<mounted, isActive, isLoading, stream, liveTracks, camPc,
                   session, toast, sessionEnd, faceVariant, cameraDenied,
                   faceDetectorRef>>
    /\ UNCHANGED timerVars
    /\ UNCHANGED <<localVars, fnVars, pageVars>>

\* the frame part of stopCamera: cancelAnimationFrame of the ref, ref = null
CancelledFrames == IF animationFrameRef # 0 THEN frames \ {animationFrameRef} ELSE frames

\* the button shows "Stop Camera" and is clicked: stopCamera of the current render
StopCameraLoop ==
    /\ mounted = "yes"
    /\ faceVariant \in LoopVariants
    /\ isActive
    /\ ~isLoading
    /\ frames' = CancelledFrames
    /\ animationFrameRef' = 0
    /\ liveTracks' = TracksAfterStop(stream)
    /\ stream' = 0
    /\ isActive' = FALSE
    /\ faces' = <<>>
    /\ isLoading' = FALSE
    /\ sessionEnd' = "stop"
    /\ UNCHANGED <<mounted, camPc, session, toast, faceVariant, cameraDenied,
                   faceDetectorRef, analyzing, lastLabel>>
    /\ UNCHANGED timerVars
    /\ UNCHANGED <<localVars, fnVars, pageVars>>

\* the component unmounts: the cleanup calls the stopCamera of the first
\* render, whose stream is the initial null
UnmountLoop ==
    /\ mounted = "yes"
    /\ faceVariant \in LoopVariants
    /\ mounted' = "gone"
    /\ frames' = CancelledFrames
    /\ animationFrameRef' = 0
    /\ liveTracks' = TracksAfterStop(0)
    /\ sessionEnd' = (IF isActive THEN "unmount" ELSE sessionEnd)
    /\ UNCHANGED <<isActive, isLoading, faces, stream, camPc, session, toast,
                   faceVariant, cameraDenied, faceDetectorRef, analyzing, lastLabel>>
    /\ UNCHANGED timerVars
    /\ UNCHANGED <<localVars, fnVars, pageVars>>

----------------------------------------------------------------------------
(* The page: Index with FileUpload (the revision reading CSV, Excel, JSON  *)
(* and TXT files; the CSV-only revision has the same parseCSV) and         *)
(* RealtimeAnalyzer.  A File is a handle: its content is what the          *)
(* FileReader delivers when the read completes.                            *)

Clicks == 1..MaxClicks
Realtime == 0
Callers == {Realtime} \cup Clicks

NoFile == "none"
Formats == {"csv", "xlsx", "json", "txt"}

\* a handleAnalyzeLocal or handleAnalyzeCloud call awaiting its analysis
Running == {"loading", "classifying", "invoking"}
\* the call went through its finally block
Ended == "ended"
\* handleAnalyze returned without handing anything over (the toast "Error
\* parsing file" or "No data found")
Dropped == "dropped"

NL == "\n"

\* String.prototype.split(sep) for a one-character separator
RECURSIVE Split(_, _)
Split(text, sep) ==
    IF \E q \in 1..Len(text) : text[q] = sep
    THEN LET q == CHOOSE r \in 1..Len(text) :
                     /\ text[r] = sep
                     /\ \A t \in 1..(r - 1) : text[t] # sep
         IN <<SubSeq(text, 1, q - 1)>> \o Split(SubSeq(text, q + 1, Len(text)), sep)
    ELSE <<text>>

\* Array.prototype.join(sep)
RECURSIVE Join(_, _)
Join(strs, sep) ==
    IF strs = <<>> THEN <<>>
    ELSE IF Len(strs) = 1 THEN strs[1]
    ELSE strs[1] \o <<sep>> \o Join(Tail(strs), sep)

\* Array.prototype.flat
RECURSIVE Flat(_)
Flat(rows) == IF rows = <<>> THEN <<>> ELSE rows[1] \o Flat(Tail(rows))

\* Array.prototype.slice(1)
Slice1(arr) == SubSeq(arr, 2, Len(arr))

\* line => line.trim() as a filter: the trimmed line is truthy
NonBlank(line) == TrimBy(line, " ") # <<>>

\* Boolean(str): any non-empty string is truthy
Truthy(str) == str # <<>>

\* .map(line => line.trim())
TrimAll(strs) == [k \in 1..Len(strs) |-> TrimBy(strs[k], " ")]

Parsed(cs) == [ok |-> TRUE, comments |-> cs]
Rejected == [ok |-> FALSE, comments |-> <<>>]

\* reader.onload of parseCSV
ParseCSV(text) ==
    LET lines == SelectSeq(Split(text, NL), NonBlank)
    IN Parsed(SelectSeq(TrimAll(Slice1(lines)), Truthy))

\* reader.onload of parseTXT
ParseTXT(text) == Parsed(SelectSeq(TrimAll(Split(text, NL)), Truthy))

\* reader.onload of parseExcel: sheet.rows is sheet_to_json(firstSheet,
\* {header: 1}), each cell a string (an empty cell the empty string);
\* XLSX.read throws on a file it cannot read
ParseExcel(sheet) ==
    IF ~sheet.readable THEN Rejected
    ELSE Parsed(SelectSeq(TrimAll(Flat(Slice1(sheet.rows))), Truthy))

\* typeof item === "string" ? item : Object.values(item).join(" ")
ItemComment(item) ==
    IF item.t = "str" THEN item.v[1]
    ELSE IF item.t = "obj" THEN Join(item.v, " ")
    ELSE <<>>

\* reader.onload of parseJSON: JSON.parse throws on invalid text, and
\* Object.values(null) throws a TypeError
ParseJSON(json) ==
    IF json.t = "invalid" \/ json.t = "null" THEN Rejected
    ELSE IF json.t = "array"
    THEN IF \E k \in 1..Len(json.items) : json.items[k].t = "null"
         THEN Rejected
         ELSE Parsed(SelectSeq([k \in 1..Len(json.items) |-> ItemComment(json.items[k])],
                               Truthy))
    ELSE IF json.t = "object"
    THEN Parsed(SelectSeq([k \in 1..Len(json.items) |-> json.items[k].v[1]], Truthy))
    ELSE Parsed(<<>>)

\* handleAnalyze call k awaits parseFile(file)
Parsing(k) == calls[k] \in {"parsingLocal", "parsingCloud"}

PageIdle ==
    /\ file = NoFile
    /\ useLocalMode = TRUE
    /\ indexIsAnalyzing = FALSE
    /\ calls = [c \in Callers |-> "none"]
    /\ handed = <<>>
    /\ csvText = <<>>

\* a step in which no comment list is handed over
NothingHanded ==
    /\ handed' = <<>>
    /\ csvText' = <<>>

\* Index renders.  One of the analyzer run, the function and the page is
\* followed per behaviour.
OpenPage ==
    /\ page = "closed"
    /\ lpc = "idle"
    /\ fpc = "idle"
    /\ mounted = "no"
    /\ page' = "open"
    /\ UNCHANGED <<file, useLocalMode, indexIsAnalyzing, calls, handed, csvText>>
    /\ UNCHANGED <<localVars, fnVars, faceVars>>

\* handleFileSelect with a supported file (the input is disabled while
\* isAnalyzing); one file is followed per behaviour
HandleFileSelect(format) ==
    /\ page = "open"
    /\ ~indexIsAnalyzing
    /\ file = NoFile
    /\ file' = format
    /\ NothingHanded
    /\ UNCHANGED <<page, useLocalMode, indexIsAnalyzing, calls>>
    /\ UNCHANGED <<localVars, fnVars, faceVars>>

\* the mode toggle: setUseLocalMode(!useLocalMode), followed while no
\* handleAnalyze call is pending
ToggleMode ==
    /\ page = "open"
    /\ \A k \in Clicks : ~Parsing(k) /\ calls[k] \notin Running
    /\ useLocalMode' = ~useLocalMode
    /\ NothingHanded
    /\ UNCHANGED <<page, file, indexIsAnalyzing, calls>>
    /\ UNCHANGED <<localVars, fnVars, faceVars>>

\* click k on the Analyze button (disabled={!file || isAnalyzing}):
\* handleAnalyze starts to read the file; its closure holds useLocalMode
HandleAnalyze(k) ==
    /\ page = "open"
    /\ file # NoFile
    /\ ~indexIsAnalyzing
    /\ calls[k] = "none"
    /\ \A j \in 1..(k - 1) : calls[j] # "none"
    /\ calls' = [calls EXCEPT ![k] = IF useLocalMode THEN "parsingLocal"
                                                      ELSE "parsingCloud"]
    /\ NothingHanded
    /\ UNCHANGED <<page, file, useLocalMode, indexIsAnalyzing>>
    /\ UNCHANGED <<localVars, fnVars, faceVars>>

\* initializeSentimentAnalyzer up to its await: the position of a call that
\* found the handle (it awaits the classification) or did not (it awaits
\* its own pipeline())
AfterInitCheck == IF sentimentAnalyzer = 0 THEN "loading" ELSE "classifying"

\* handleAnalyze after await parseFile(file): the toast "Error parsing
\* file", the toast "No data found", or onAnalyzeLocal / onAnalyzeCloud with
\* the comments, which sets isAnalyzing and runs up to its first await
AfterParse(k, res) ==
    LET local == calls[k] = "parsingLocal"
        started == res.ok /\ res.comments # <<>>
    IN /\ calls' = [calls EXCEPT ![k] =
                       IF ~res.ok THEN Dropped
                       ELSE IF res.comments = <<>> THEN Dropped
                       ELSE IF local THEN AfterInitCheck
                       ELSE "invoking"]
       /\ handed' = IF started THEN <<res.comments>> ELSE <<>>
       /\ indexIsAnalyzing' = (started \/ indexIsAnalyzing)

ReaderOnLoadCSV(k, text) ==
    /\ Parsing(k)
    /\ file = "csv"
    /\ csvText' = <<text>>
    /\ AfterParse(k, ParseCSV(text))
    /\ UNCHANGED <<page, file, useLocalMode>>
    /\ UNCHANGED <<localVars, fnVars, faceVars>>

ReaderOnLoadTXT(k, text) ==
    /\ Parsing(k)
    /\ file = "txt"
    /\ csvText' = <<>>
    /\ AfterParse(k, ParseTXT(text))
    /\ UNCHANGED <<page, file, useLocalMode>>
    /\ UNCHANGED <<localVars, fnVars, faceVars>>

ReaderOnLoadExcel(k, sheet) ==
    /\ Parsing(k)
    /\ file = "xlsx"
    /\ csvText' = <<>>
    /\ AfterParse(k, ParseExcel(sheet))
    /\ UNCHANGED <<page, file, useLocalMode>>
    /\ UNCHANGED <<localVars, fnVars, faceVars>>

ReaderOnLoadJSON(k, json) ==
    /\ Parsing(k)
    /\ file = "json"
    /\ csvText' = <<>>
    /\ AfterParse(k, ParseJSON(json))
    /\ UNCHANGED <<page, file, useLocalMode>>
    /\ UNCHANGED <<localVars, fnVars, faceVars>>

\* reader.onerror: parseFile rejects
ReaderOnError(k) ==
    /\ Parsing(k)
    /\ csvText' = <<>>
    /\ AfterParse(k, Rejected)
    /\ UNCHANGED <<page, file, useLocalMode>>
    /\ UNCHANGED <<localVars, fnVars, faceVars>>

\* RealtimeAnalyzer: analyzeSentiment(text) with a non-blank text calls
\* analyzeSentimentLocal([text]); one call is followed per behaviour
RealtimeAnalyze ==
    /\ page = "open"
    /\ calls[Realtime] = "none"
    /\ calls' = [calls EXCEPT ![Realtime] = AfterInitCheck]
    /\ NothingHanded
    /\ UNCHANGED <<page, file, useLocalMode, indexIsAnalyzing>>
    /\ UNCHANGED <<localVars, fnVars, faceVars>>

\* finally { setIsAnalyzing(false) } of handleAnalyzeLocal and
\* handleAnalyzeCloud; RealtimeAnalyzer has a flag of its own
AfterFinally(c) == IF c \in Clicks THEN FALSE ELSE indexIsAnalyzing

\* the pipeline() of call c resolves: sentimentAnalyzer = the new pipeline,
\* which the call returns
PipelineResolved(c) ==
    /\ calls[c] = "loading"
    /\ sentimentAnalyzer' = sentimentAnalyzer + 1
    /\ calls' = [calls EXCEPT ![c] = "classifying"]
    /\ NothingHanded
    /\ UNCHANGED <<page, file, useLocalMode, indexIsAnalyzing>>
    /\ UNCHANGED <<runVars, fnVars, faceVars>>

\* the pipeline() of call c rejects: analyzeSentimentLocal rejects, the
\* caller's catch and finally run
PipelineRejected(c) ==
    /\ calls[c] = "loading"
    /\ calls' = [calls EXCEPT ![c] = Ended]
    /\ indexIsAnalyzing' = AfterFinally(c)
    /\ NothingHanded
    /\ UNCHANGED <<page, file, useLocalMode>>
    /\ UNCHANGED <<localVars, fnVars, faceVars>>

\* analyzeSentimentLocal resolves (ok) or rejects: try or catch, then finally
ClassifySettled(c, ok) ==
    /\ calls[c] = "classifying"
    /\ calls' = [calls EXCEPT ![c] = Ended]
    /\ indexIsAnalyzing' = AfterFinally(c)
    /\ NothingHanded
    /\ UNCHANGED <<page, file, useLocalMode>>
    /\ UNCHANGED <<localVars, fnVars, faceVars>>

\* mutant: isAnalyzing is reset on success only
InvokeSettledNoFinally(k, ok) ==
    /\ calls[k] = "invoking"
    /\ calls' = [calls EXCEPT ![k] = Ended]
    /\ indexIsAnalyzing' = IF ok THEN FALSE ELSE indexIsAnalyzing
    /\ NothingHanded
    /\ UNCHANGED <<page, file, useLocalMode>>
    /\ UNCHANGED <<localVars, fnVars, faceVars>>

\* supabase.functions.invoke returns: data (ok), or an error or a throw
\* (also of setResults(data.results) with no data); then finally
InvokeSettled(k, ok) ==
    /\ calls[k] = "invoking"
    /\ calls' = [calls EXCEPT ![k] = Ended]
    /\ indexIsAnalyzing' = FALSE
    /\ NothingHanded
    /\ UNCHANGED <<page, file, useLocalMode>>
    /\ UNCHANGED <<localVars, fnVars, faceVars>>

\* lines of a text file
Lines == { <<" ">>, <<"a", ",", "b">>, <<" ", "c", " ">> }

\* text files of three lines
Texts == { Join(<<l1, l2, l3>>, NL) : l1 \in Lines, l2 \in Lines, l3 \in Lines }

\* rows of a sheet
Rows == { <<>>, <<<<" ">>>>, <<<<"a">>, <<"b", " ">>>>, <<<<>>, <<"c">>>> }

\* sheets of a header row and one more row, the empty sheet, and a file
\* XLSX.read cannot read
Sheets == { [readable |-> TRUE, rows |-> <<<<<<"h">>>>, r>>] : r \in Rows }
          \cup { [readable |-> r, rows |-> <<>>] : r \in BOOLEAN }

StrItem(str) == [t |-> "str", v |-> <<str>>]
ObjItem(values) == [t |-> "obj", v |-> values]

JsonItems == { StrItem(<<"a">>), StrItem(<<" ">>), StrItem(<<>>),
               ObjItem(<<<<"a">>, <<"b">>>>), ObjItem(<<<<>>, <<>>>>),
               [t |-> "null", v |-> <<>>], [t |-> "num", v |-> <<>>] }

\* what JSON.parse makes of the file: arrays of one or two items, objects
\* of two string values, null, a scalar, or invalid text
JsonValues == { [t |-> "array", items |-> <<a>>] : a \in JsonItems }
              \cup { [t |-> "array", items |-> <<StrItem(<<"a">>), b>>] : b \in JsonItems }
              \cup { [t |-> "object", items |-> <<StrItem(a), StrItem(<<>>)>>] :
                        a \in {<<"a">>, <<" ">>, <<>>} }
              \cup { [t |-> k, items |-> <<>>] : k \in {"array", "invalid", "null", "scalar"} }

----------------------------------------------------------------------------
(* Inputs *)

\* comment lists of the function: pattern 1 alternates two texts, pattern 2 repeats one
CommentAt(pat, j) == IF pat = 1 /\ j % 2 = 0 THEN <<"b">> ELSE <<"a">>
RemoteLists(n) == {[j \in 1..m |-> CommentAt(pat, j)] : m \in 0..n, pat \in {1, 2}}

EntryCycle == <<eP, eN, eU, ePU, eBad, eNone>>
Entries(n, off) == [k \in 1..n |-> EntryCycle[((k + off - 1) % Len(EntryCycle)) + 1]]

\* the text of a JSON array with these elements
Arr(es) ==
    IF Len(es) = 0 THEN <<LB, RB>>
    ELSE [j \in 1..(2 * Len(es) + 1) |->
            IF j = 1 THEN LB
            ELSE IF j = 2 * Len(es) + 1 THEN RB
            ELSE IF j % 2 = 0 THEN es[j \div 2] ELSE CM]

ArrayLens == {0, 1, 2, 9, 10, 11}
LabelArrays == {Arr(Entries(n, off)) : n \in ArrayLens, off \in {0, 4}}

OtherBodies ==
    { <<>>, <<TXT>>, <<NUL>>, <<NUM>>, <<eP>>,
      <<LB, eP, eN, RB>>,            \* comma missing
      <<LB, eP, CM, RB>>,            \* trailing comma
      <<LB, eP, CM, eN>>,            \* not closed
      <<LB, LB, eP, RB, RB>>,        \* nested array
      Arr(<<eNum>>), Arr(<<NUL, eP>>), Arr(<<eEmpty, eN>>) }

\* text around the array: <<before, after>>
Wraps ==
    { <<<<TXT>>, <<>>>>,
      <<<<FENCE>>, <<FENCE>>>>,
      <<<<WS>>, <<WS, WS>>>>,
      <<<<TXT, LB, TXT>>, <<>>>>,
      <<<<>>, <<TXT, RB>>>>,
      <<<<TXT, RB, TXT>>, <<TXT, LB>>>> }

Wrapped == {w[1] \o body \o w[2] : w \in Wraps, body \in {Arr(Entries(2, 0)), Arr(Entries(10, 1))}}

Contents == LabelArrays \cup OtherBodies \cup Wrapped

Replies ==
    { positive, neutral,
      <<"P","o","s","i","t","i","v","e">>,
      <<"N","E","G","A","T","I","V","E",".">>,
      <<" ","n","e","g","a","t","i","v","e"," ">>,
      <<"m","i","x","e","d">> }

Statuses == {200, 429, 402, 500}
----------------------------------------------------------------------------

Init ==
    /\ variant = "none"
    /\ sentimentAnalyzer = 0
    /\ LocalIdle
    /\ handler = "none"
    /\ apiKey = FALSE
    /\ FnIdle
    /\ mounted = "no"
    /\ faceVariant = "none"
    /\ FaceIdle
    /\ page = "closed"
    /\ PageIdle

\* the steps of the page
PageNext ==
    \/ OpenPage
    \/ \E format \in Formats : HandleFileSelect(format)
    \/ ToggleMode
    \/ \E k \in Clicks : HandleAnalyze(k)
    \/ \E k \in Clicks, text \in Texts : ReaderOnLoadCSV(k, text)
    \/ \E k \in Clicks, text \in Texts : ReaderOnLoadTXT(k, text)
    \/ \E k \in Clicks, sheet \in Sheets : ReaderOnLoadExcel(k, sheet)
    \/ \E k \in Clicks, json \in JsonValues : ReaderOnLoadJSON(k, json)
    \/ \E k \in Clicks : ReaderOnError(k)
    \/ RealtimeAnalyze
    \/ \E c \in Callers : PipelineResolved(c)
    \/ \E c \in Callers : PipelineRejected(c)
    \/ \E c \in Callers, ok \in BOOLEAN : ClassifySettled(c, ok)
    \/ \E k \in Clicks, ok \in BOOLEAN : InvokeSettled(k, ok)

Next ==
    \/ \E v \in Variants, cs \in CommentLists(MaxLocal), cb \in BOOLEAN : StartLocal(v, cs, cb)
    \/ InitAnalyzerDone
    \/ InitAnalyzerThrow
    \/ \E label \in ModelLabels, score \in Scores : ClassifyReturn(label, score)
    \/ ClassifyThrow
    \/ \E cs \in RemoteLists(MaxRemote), key \in BOOLEAN : ServeBatched(cs, key)
    \/ \E status \in Statuses : FetchFailed(status)
    \/ \E raw \in Contents : FetchOk(raw)
    \/ DelayElapsed
    \/ \E cs \in CommentLists(MaxPerComment), key \in BOOLEAN : ServePerComment(cs, key)
    \/ \E status \in Statuses : ReplyFailed(status)
    \/ \E content \in Replies : ReplyOk(content)
    \/ \E v \in FaceVariants : Mount(v)
    \/ StartCamera
    \/ GetUserMediaResolved
    \/ GetUserMediaRejected
    \/ OnLoadedMetadata
    \/ StopCamera
    \/ Unmount
    \/ \E s \in Sessions, ready \in BOOLEAN : FirstAnalysis(s, ready)
    \/ \E s \in Sessions, ready \in BOOLEAN : IntervalTick(s, ready)
    \/ \E s \in Sessions, reply \in FaceReplies : InvokeReturn(s, reply)
    \/ StartCameraLoop
    \/ \E ok \in BOOLEAN : InitModelsSettled(ok)
    \/ GetUserMediaResolvedLoop
    \/ GetUserMediaRejectedLoop
    \/ \E ready \in BOOLEAN : OnLoadedMetadataLoop(ready)
    \/ \E s \in Sessions, ready \in BOOLEAN : FrameFires(s, ready)
    \/ \E s \in Sessions, outcome \in FrameOutcomes("localEmotion") :
          AnalyzeFrameDone(s, "localEmotion", outcome)
    \/ \E s \in Sessions, outcome \in FrameOutcomes("remoteEmotion") :
          AnalyzeFrameDone(s, "remoteEmotion", outcome)
    \/ StopCameraLoop
    \/ UnmountLoop
    \/ PageNext

Spec == Init /\ [][Next]_vars

\* an awaited call of run k returns or throws: the pipeline load, the
\* classification, or the function call
Settle(k) ==
    \/ PipelineResolved(k)
    \/ PipelineRejected(k)
    \/ \E ok \in BOOLEAN : ClassifySettled(k, ok)
    \/ \E ok \in BOOLEAN : InvokeSettled(k, ok)

\* the page, where every awaited call of an analysis run eventually returns
\* or throws
FairSpec == Init /\ [][PageNext]_vars /\ \A k \in Clicks : WF_vars(Settle(k))

TypeOK ==
    /\ lpc \in {"idle", "init", "classifying", "returned", "rejected"}
    /\ variant \in Variants \cup {"none"}
    /\ handler \in {"none", "batched", "perComment"}
    /\ i \in 0..MaxLocal
    /\ Len(results) <= MaxLocal
    /\ fpc \in {"idle", "fetching", "delaying", "responded"}
    /\ Len(fnResults) <= MaxRemote
    /\ mounted \in {"no", "yes", "gone"}
    /\ camPc \in {"idle", "loading", "acquiring", "metadata"}
    /\ faceVariant \in FaceVariants \cup {"none"}
    /\ session \in 0..MaxSessions
    /\ stream \in 0..MaxSessions
    /\ InFlightCount <= MaxInFlight
    /\ Len(faces) <= 1
    /\ sentimentAnalyzer \in 0..(MaxClicks + 1)
    /\ page \in {"closed", "open"}
    /\ file \in Formats \cup {NoFile}
    /\ calls \in [Callers -> {"none", "parsingLocal", "parsingCloud", Dropped, Ended}
                              \cup Running]

----------------------------------------------------------------------------
(* Properties *)

LastResult == results[Len(results)]
LowerLabel == ToLowerCase(lastRaw.label)

\* C1: every SentimentResult of a text analyzer (accumulated, reported,
\* returned by analyzeSentimentLocal in any revision, or returned by the
\* analyze-sentiment function) has sentiment positive, negative or neutral.
C1_SentimentIsEnum ==
    /\ \A k \in 1..Len(results) : results[k].sentiment \in Sentiments
    /\ \A k \in 1..Len(returned) : returned[k].sentiment \in Sentiments
    /\ \A k \in 1..Len(progress) :
          Len(progress[k]) = 3 => progress[k][3].sentiment \in Sentiments
    /\ response.kind = "results" =>
          \A k \in 1..Len(response.results) :
              response.results[k].sentiment \in Sentiments

\* the function returned results for a batch whose array held the label "bad"
C1_Witness ==
    /\ handler = "batched"
    /\ response.kind = "results"
    /\ Len(response.results) > 0
    /\ \E q \in 1..Len(lastContent) : lastContent[q] = eBad

\* C2: in the 0.7-threshold revision a score strictly below 0.7 gives
\* neutral, whatever the label.
C2_BelowThresholdNeutral ==
    (variant = "threshold" /\ Len(results) > 0 /\ lastRaw.score < 70)
        => LastResult.sentiment = neutral

\* a confident-looking label with score 0.69 was classified
C2_Witness ==
    /\ variant = "threshold"
    /\ Len(results) > 0
    /\ lastRaw.score = 69
    /\ LowerLabel = positive

\* C3: in the 0.7-threshold revision a score of at least 0.7 with a label
\* that is positive or negative in any casing gives the lowercased label.
C3_AtThresholdLabel ==
    (variant = "threshold" /\ Len(results) > 0 /\ lastRaw.score >= 70
        /\ LowerLabel \in {positive, negative})
        => LastResult.sentiment = LowerLabel

\* an upper-case NEGATIVE with score exactly 0.7 was classified
C3_Witness ==
    /\ variant = "threshold"
    /\ Len(results) > 0
    /\ lastRaw.score = 70
    /\ lastRaw.label = <<"N","E","G","A","T","I","V","E">>

\* C4: in the 3-class revisions the sentiment is the lowercased label when
\* that is positive or negative, and neutral for every other label, at
\* every score.
C4_ThreeClassMapping ==
    (variant \in {"threeClass", "threeClassNoResult"} /\ Len(results) > 0)
        => LastResult.sentiment =
              (IF LowerLabel \in {positive, negative} THEN LowerLabel ELSE neutral)

\* the unrecognized label LABEL_2 was classified with a high score
C4_Witness ==
    /\ variant = "threeClass"
    /\ Len(results) > 0
    /\ lastRaw.label = <<"L","A","B","E","L","_","2">>
    /\ lastRaw.score = 70

\* position of an event in the trace (0 when absent)
TracePos(ev) ==
    IF \E p \in 1..Len(trace) : trace[p] = ev
    THEN CHOOSE p \in 1..Len(trace) : trace[p] = ev
    ELSE 0

TraceCount(ev) == Cardinality({p \in 1..Len(trace) : trace[p] = ev})

\* the k-th callback comes right after item k was classified and before the
\* classifier is called for item k + 1
ProgressInOrder(k) ==
    /\ TraceCount(<<"progress", k>>) = 1
    /\ TracePos(<<"progress", k>>) > 1
    /\ trace[TracePos(<<"progress", k>>) - 1] = <<"ret", k - 1>>
    /\ \A p \in 1..Len(trace) :
          trace[p] = <<"call", k>> => p > TracePos(<<"progress", k>>)

ProgressCount ==
    /\ Len(progress) = Cardinality({p \in 1..Len(trace) : trace[p][1] = "progress"})
    /\ Len(progress) = Len(results)
    /\ lpc = "returned" => Len(progress) = Len(comments)

C6_ResultsInInputOrder ==
    lpc = "returned" =>
        /\ Len(returned) = Len(comments)
        /\ \A j \in 1..Len(comments) : returned[j].comment = comments[j]
        /\ Len(comments) = 0 => (trace = <<>> /\ progress = <<>>)

\* a run over comments that differ from each other has returned
C6_Witness ==
    /\ lpc = "returned"
    /\ Len(comments) >= 2
    /\ comments[1] # comments[2]
    /\ Len(returned) >= 2

----------------------------------------------------------------------------
(* Properties of the analyze-sentiment function *)

Min(a, b) == IF a < b THEN a ELSE b

RequestCount == Cardinality({p \in 1..Len(fnTrace) : fnTrace[p][1] = "request"})

\* upstream responses received so far
Answered == RequestCount - (IF fpc = "fetching" THEN 1 ELSE 0)

\* 0-based index of the first comment of the batch answered last
LastStart == 10 * (Answered - 1)
LastBatchLen == Min(LastStart + 10, Len(fnComments)) - LastStart

\* the latest upstream response was a 200 and mapping it did not throw
BatchMapped ==
    /\ handler = "batched"
    /\ lastStatus = 200
    /\ response.kind # "error"

\* the label the k-th element of a parsed array stands for
ExpectedLabel(elems, k) ==
    IF /\ k <= Len(elems)
       /\ elems[k][1] = "obj"
       /\ elems[k][2][1] = "str"
       /\ ToLowerCase(elems[k][2][2]) \in Sentiments
    THEN ToLowerCase(elems[k][2][2])
    ELSE neutral

\* the comments of the batch answered last carry the labels of elems, by position
LastBatchLabelled(elems) ==
    /\ Len(fnResults) = LastStart + LastBatchLen
    /\ \A k \in 1..LastBatchLen :
          fnResults[LastStart + k].sentiment = ExpectedLabel(elems, k)

\* C7: the requests are for consecutive batches of at most 10 comments, a
\* 1000 ms delay lies between each two consecutive requests and none after
\* the last; a run that returns results issued ceil(N/10) requests.
C7_RequestsAndDelays ==
    handler = "batched" =>
        /\ \A p \in 1..Len(fnTrace) :
              IF p % 2 = 1
              THEN /\ fnTrace[p][1] = "request"
                   /\ Len(fnTrace[p][2]) \in 1..10
                   /\ fnTrace[p][2] =
                        SubSeq(fnComments, 10 * (p \div 2) + 1,
                               Min(10 * (p \div 2) + 10, Len(fnComments)))
              ELSE fnTrace[p] = <<"delay", 1000>>
        /\ response.kind = "results" =>
              /\ RequestCount = (Len(fnComments) + 9) \div 10
              /\ fnTrace # <<>> => fnTrace[Len(fnTrace)][1] = "request"

\* 21 comments were analysed: three requests, two delays
C7_Witness ==
    /\ handler = "batched"
    /\ response.kind = "results"
    /\ Len(fnComments) = 21
    /\ Len(fnTrace) = 5

\* C8: returned results have one entry per comment, in input order, whatever
\* the length of each batch's array; element idx of a batch's array labels
\* the idx-th comment of that batch.
C8_OneResultPerComment ==
    /\ (handler = "batched" /\ response.kind = "results") =>
          /\ Len(response.results) = Len(fnComments)
          /\ \A j \in 1..Len(fnComments) :
                response.results[j].comment = fnComments[j]
    /\ BatchMapped =>
          LET r == JSONParse(JsonStr(lastContent)) IN
          (r.ok /\ r.v[1] = "arr") => LastBatchLabelled(r.v[2])

\* a last batch of one comment was answered with an array of two labels
C8_Witness ==
    /\ handler = "batched"
    /\ response.kind = "results"
    /\ Len(fnComments) = 11
    /\ fnComments[1] # fnComments[2]
    /\ lastContent = Arr(Entries(2, 0))

ParsesToArray(content) ==
    LET r == JSONParse(JsonStr(content)) IN r.ok /\ r.v[1] = "arr"

\* C9: a 200 response whose content does not parse into a JSON array does
\* not abort the run: every comment of that batch is neutral and the next
\* batch, if any, follows.
C9_UnparseableBatchNeutral ==
    (handler = "batched" /\ lastStatus = 200 /\ ~ParsesToArray(lastContent)) =>
        /\ response.kind # "error"
        /\ Len(fnResults) = LastStart + LastBatchLen
        /\ \A k \in 1..LastBatchLen : fnResults[LastStart + k].sentiment = neutral
        /\ IF LastStart + 10 < Len(fnComments)
           THEN fpc \in {"delaying", "fetching"}
           ELSE response.kind = "results"

\* an array whose elements are all objects with a sentiment string
LabelArray(toks) ==
    LET r == JSONParse(toks) IN
    /\ Len(toks) >= 3
    /\ toks[1] = LB
    /\ r.ok
    /\ \A k \in 1..Len(r.v[2]) : r.v[2][k][1] = "obj" /\ r.v[2][k][2][1] = "str"

JsonArray(toks) == Len(toks) >= 2 /\ toks[1] = LB /\ JSONParse(toks).ok

Spans(content) ==
    {sp \in (1..Len(content)) \X (1..Len(content)) :
        sp[1] < sp[2] /\ content[sp[1]] = LB /\ content[sp[2]] = RB}

\* the leftmost substring that is a well-formed JSON array
FirstArraySpans(content) ==
    {sp \in Spans(content) :
        /\ JsonArray(SubSeq(content, sp[1], sp[2]))
        /\ \A other \in Spans(content) :
              JsonArray(SubSeq(content, other[1], other[2])) => sp[1] <= other[1]}

\* C10 as stated: the first well-formed JSON array substring is parsed; when
\* it is an array of label objects its labels are used for the batch,
\* whatever text surrounds it.
C10_Original ==
    BatchMapped =>
        \A sp \in FirstArraySpans(lastContent) :
            LabelArray(SubSeq(lastContent, sp[1], sp[2])) =>
                LastBatchLabelled(JSONParse(SubSeq(lastContent, sp[1], sp[2])).v[2])

\* C10: the substring from the first "[" to the last "]" is parsed; an array
\* of label objects with no "[" before it and no "]" after it gives its
\* labels to the batch, whatever else surrounds it.
C10_FirstToLastBracket ==
    BatchMapped =>
        \A sp \in Spans(lastContent) :
            ( /\ \A q \in 1..(sp[1] - 1) : lastContent[q] # LB
              /\ \A q \in (sp[2] + 1)..Len(lastContent) : lastContent[q] # RB
              /\ LabelArray(SubSeq(lastContent, sp[1], sp[2])) )
            => LastBatchLabelled(JSONParse(SubSeq(lastContent, sp[1], sp[2])).v[2])

\* an array between text holding "]" before it and "[" after it was mapped
C10_Witness ==
    /\ handler = "batched"
    /\ response.kind = "results"
    /\ Len(fnComments) = 2
    /\ lastContent = <<TXT, RB, TXT>> \o Arr(Entries(2, 0)) \o <<TXT, LB>>

\* C11: an entry of the parsed array that is missing, has no sentiment
\* field, or whose sentiment (a non-string value included) is not one of the
\* three labels after lowercasing makes only its own position neutral; the
\* other positions keep their labels and the run goes on.
C11_BadEntryOnlyNeutral ==
    (handler = "batched" /\ lastStatus = 200 /\ ParsesToArray(lastContent)) =>
        /\ response.kind # "error"
        /\ LastBatchLabelled(JSONParse(JsonStr(lastContent)).v[2])

----------------------------------------------------------------------------
(* Upstream failures of the analyze-sentiment function *)

\* the latest upstream response of the batched function had a non-success status
UpstreamFailed == handler = "batched" /\ lastStatus \notin {0, 200}

C13_FailureAbortsRun ==
    UpstreamFailed =>
        /\ fpc = "responded"
        /\ fnTrace[Len(fnTrace)][1] = "request"
        /\ fnTrace[Len(fnTrace)][2] = Batch(fnComments, 10 * (RequestCount - 1))
        /\ response.kind = "error"
        /\ response.status = 500
        /\ response.results = <<>>

\* the third batch failed after two batches had been mapped
C13_Witness ==
    /\ UpstreamFailed
    /\ lastStatus = 429
    /\ RequestCount = 3
    /\ Len(fnResults) = 20
    /\ Len(fnComments) = 21

----------------------------------------------------------------------------
(* A throwing classifier, and the calls in flight *)

\* 0-based index of the item whose classification threw (-1 when none did)
ThrownAt ==
    IF trace # <<>> /\ trace[Len(trace)][1] = "throw" THEN trace[Len(trace)][2] ELSE -1

\* C14: when the classifier throws for item i, analyzeSentimentLocal rejects
\* and returns no result list, no item after i is classified, and the
\* progress callback was invoked exactly for the items before i.
C14_ThrowRejects ==
    /\ \A p \in 1..Len(trace) : trace[p][1] = "throw" => p = Len(trace)
    /\ ThrownAt >= 0 =>
          /\ lpc = "rejected"
          /\ returned = <<>>
          /\ \A p \in 1..Len(trace) :
                trace[p][1] \in {"call", "ret"} =>
                    trace[p][2] <= (IF trace[p][1] = "call" THEN ThrownAt ELSE ThrownAt - 1)
          /\ Len(progress) = (IF hasCallback THEN ThrownAt ELSE 0)
          /\ \A k \in 1..Len(progress) :
                progress[k][1] = k /\ TraceCount(<<"progress", k>>) = 1

\* the classifier threw for the second item of a run with a callback
C14_Witness ==
    /\ ThrownAt = 1
    /\ hasCallback
    /\ Len(results) = 1
    /\ Len(progress) = 1
    /\ lpc = "rejected"

\* classifier calls issued and not yet settled, after the first p events
InFlightAfter(p) ==
    Cardinality({q \in 1..p : trace[q][1] = "call"})
      - Cardinality({q \in 1..p : trace[q][1] \in {"ret", "throw"}})

\* comments of the function covered by one request
PerRequest == IF handler = "batched" THEN 10 ELSE 1

\* C15: one classification call is in flight at a time in a run: the local
\* analyzer calls the classifier for item i+1 only after the call for item
\* i has returned and its result is recorded, and the function requests
\* batch k+1 only after the response for batch k is fully processed.
C15_OneCallInFlight ==
    /\ \A p \in 1..Len(trace) :
          /\ InFlightAfter(p) \in {0, 1}
          /\ (trace[p][1] = "call" /\ trace[p][2] > 0) =>
                /\ \E q \in 1..(p - 1) : trace[q] = <<"ret", trace[p][2] - 1>>
                /\ Len(results) >= trace[p][2]
    /\ lpc = "classifying" => (InFlightAfter(Len(trace)) = 1 /\ Len(results) = i)
    /\ RequestCount >= 1 =>
          /\ Len(fnResults) >= Min(PerRequest * (RequestCount - 1), Len(fnComments))
          /\ fpc = "fetching" => Len(fnResults) = PerRequest * (RequestCount - 1)
          /\ \A p \in 1..(Len(fnTrace) - 1) :
                (handler = "batched" /\ fnTrace[p][1] = "request")
                    => fnTrace[p + 1][1] = "delay"

\* the third request of the batched function is in flight after two batches
\* were processed
C15_Witness ==
    /\ handler = "batched"
    /\ fpc = "fetching"
    /\ RequestCount = 3
    /\ Len(fnResults) = 20

----------------------------------------------------------------------------
(* Properties of the camera component *)

\* C16: at most one analyzeFrame execution, and so one analyze-face-emotion
\* call, is in flight at a time: a tick that fires while the previous call
\* has not returned is skipped, for every timing and across stop and start.
C16_OneFrameInFlight == InFlightCount <= 1

\* C17: from stopCamera until the next startCamera the recurring analysis is
\* cancelled: no analyzeFrame is scheduled and no remote call is issued,
\* whenever stop happens.
C17_StopCancelsAnalysis ==
    /\ [](sessionEnd # "none" => (intervals = {} /\ timeouts = {}))
    /\ [][(sessionEnd # "none" /\ sessionEnd' # "none")
             => \A s \in Sessions : inFlight'[s] <= inFlight[s]]_vars

\* C18: the result of a call that was in flight when the session was
\* stopped is discarded: from stopCamera until the next startCamera faces
\* is empty.
C18_StaleResultDiscarded ==
    (mounted = "yes" /\ sessionEnd = "stop") => faces = <<>>

\* C19: when an active session ends, by the Stop button or by unmounting,
\* every track of the stream that startCamera acquired is stopped.
C19_TracksStopped == sessionEnd # "none" => liveTracks = {}

\* the step handles a rate-limited reply to a call of session s
RateLimitedReply(s) ==
    /\ inFlight[s] > 0
    /\ inFlight' = [inFlight EXCEPT ![s] = @ - 1]
    /\ lastReply' = Reply(FALSE, FALSE, TRUE, FALSE, "")

\* C20: a rate-limited reply does not end the session and gives no
\* detection for that tick: isActive, stream and the interval timer stay as
\* they are, faces is not updated, the in-flight flag is cleared and the
\* next tick of the session analyzes again.
C20_RateLimitedSuppressed ==
    [][\A s \in Sessions :
          (mounted = "yes" /\ RateLimitedReply(s)) =>
              /\ isActive' = isActive
              /\ stream' = stream
              /\ liveTracks' = liveTracks
              /\ analysisIntervalRef' = analysisIntervalRef
              /\ intervals' = intervals
              /\ faces' = faces
              /\ isAnalyzing' = FALSE
              /\ toast' = "Rate Limited"
              /\ s \in intervals' => ~captured'[s]]_vars

\* a rate-limited reply was handled in an active session that shows a face
C20_Witness ==
    /\ mounted = "yes"
    /\ isActive
    /\ lastReply.rateLimited
    /\ faces # <<>>
    /\ intervals # {}
    /\ InFlightCount = 0
    /\ ~isAnalyzing

\* C21: every FaceDetection stored in faces has sentiment happy, sad or
\* neutral, whatever sentiment string the remote endpoint returned.
C21_FaceSentimentIsEnum ==
    \A k \in 1..Len(faces) : faces[k].sentiment \in {"happy", "sad", "neutral"}

----------------------------------------------------------------------------
(* The band revision of the local mapping *)

\* C28: in the band revision the sentiment is neutral exactly when
\* 0.4 <= score <= 0.6, both bounds included; for every other score it is
\* positive when the lowercased label is 'positive' and negative otherwise.
C28_BandMapping ==
    (variant = "band" /\ results # <<>>) =>
        /\ LastResult.sentiment = neutral <=> (40 <= lastRaw.score /\ lastRaw.score <= 60)
        /\ (lastRaw.score < 40 \/ lastRaw.score > 60) =>
              LastResult.sentiment = (IF LowerLabel = positive THEN positive ELSE negative)

\* a score on the lower bound of the band gave neutral for a positive label
C28_Witness ==
    /\ variant = "band"
    /\ results # <<>>
    /\ lastRaw.score = 40
    /\ LowerLabel = positive
    /\ LastResult.sentiment = neutral

----------------------------------------------------------------------------
(* Properties of the camera component, all revisions *)

\* C22: mapEmotionToSentiment maps a label, case-insensitively, to happy
\* when it contains 'happy', 'joy' or 'smile', otherwise to sad when it
\* contains 'sad', 'angry', 'fear' or 'disgust', otherwise to neutral; the
\* result is one of the three values and a label with a happy and a sad
\* keyword maps to happy.
C22_EmotionMapping ==
    (faceVariant = "localEmotion" /\ mounted = "yes" /\ faces # <<>>) =>
        LET l == ToLowerCase(lastLabel)
            isHappy == \/ Includes(l, <<"h","a","p","p","y">>)
                       \/ Includes(l, <<"j","o","y">>)
                       \/ Includes(l, <<"s","m","i","l","e">>)
            isSad == \/ Includes(l, <<"s","a","d">>)
                     \/ Includes(l, <<"a","n","g","r","y">>)
                     \/ Includes(l, <<"f","e","a","r">>)
                     \/ Includes(l, <<"d","i","s","g","u","s","t">>)
        IN /\ faces[1].sentiment \in {"happy", "sad", "neutral"}
           /\ faces[1].sentiment = "happy" <=> isHappy
           /\ faces[1].sentiment = "sad" <=> (isSad /\ ~isHappy)
           /\ faces[1].sentiment = "neutral" <=> (~isSad /\ ~isHappy)

\* a label with a sad and a happy keyword was classified as happy
C22_Witness ==
    /\ faceVariant = "localEmotion"
    /\ mounted = "yes"
    /\ lastLabel = <<"s","a","d"," ","s","m","i","l","e">>
    /\ faces # <<>>
    /\ faces[1].sentiment = "happy"

\* C23: when getUserMedia rejects, the session does not start: isActive
\* stays false, no stream is stored, no timer or loop is started and no
\* remote call is issued for it, and isLoading is false again so that the
\* button can be clicked again.
C23_DeniedNeverStarts ==
    (mounted = "yes" /\ cameraDenied) =>
        /\ camPc = "idle"
        /\ ~isActive
        /\ stream = 0
        /\ session \notin liveTracks
        /\ session \notin (intervals \cup timeouts \cup frames \cup analyzing)
        /\ inFlight[session] = 0
        /\ ~isLoading

\* the second startCamera of the timer revision was denied
C23_Witness ==
    /\ mounted = "yes"
    /\ faceVariant = "timer"
    /\ cameraDenied
    /\ session = 2
    /\ toast = "Camera Error"

\* C30: in the revisions with a local detection model, whenever startCamera
\* has completed successfully the loading flag is false, on the first start
\* and on every later start with the model already loaded.
C30_ActiveNotLoading ==
    (faceVariant \in LoopVariants /\ mounted = "yes" /\ isActive) => ~isLoading

\* C24: every analysis run started by handleAnalyzeLocal or
\* handleAnalyzeCloud eventually ends, and when it has ended isAnalyzing is
\* false, whether the analysis succeeded or failed, given that every
\* awaited call eventually returns or throws.
C24_RunEndsNotAnalyzing ==
    \A k \in Clicks :
        (calls[k] \in Running) ~> (calls[k] = Ended /\ ~indexIsAnalyzing)

\* a run has ended with isAnalyzing false and the next click is being served
C24_Witness ==
    /\ calls[1] = Ended
    /\ ~indexIsAnalyzing
    /\ Parsing(2)

\* a string that is empty or only white space
Blank(str) == TrimBy(str, " ") = <<>>

\* C25: every comment list FileUpload hands to onAnalyzeLocal or
\* onAnalyzeCloud is non-empty (no analysis starts when parsing yields no
\* comment) and holds no empty or white-space-only string, for CSV, Excel,
\* JSON and TXT files of every content.
C25_HandedNonBlank ==
    handed # <<>> =>
        /\ handed[1] # <<>>
        /\ \A j \in 1..Len(handed[1]) : ~Blank(handed[1][j])

\* the value of the first column of a CSV row
FirstColumn(line) == TrimBy(Split(line, ",")[1], " ")

\* the first column of every non-blank row after the header row, in order
FirstColumns(text) ==
    LET rows == SelectSeq(Split(text, NL), NonBlank)
    IN [j \in 1..(Len(rows) - 1) |-> FirstColumn(rows[j + 1])]

\* C26: for a CSV file the comment list handed to the analyzer is the first
\* column's value of every non-blank row after the header row, in file
\* order.
C26_FirstColumnAfterHeader ==
    (csvText # <<>> /\ handed # <<>>) => handed[1] = FirstColumns(csvText[1])

\* C27: over any interleaving of initializeSentimentAnalyzer calls at most
\* one pipeline is ever created, so that every call returns that one handle
\* (pipeline k is the handle sentimentAnalyzer = k).
C27_PipelineLoadedOnce == sentimentAnalyzer <= 1

\* C29: at most one file analysis run (local or cloud) is in progress at
\* any time.
C29_OneRunAtATime == Cardinality({k \in Clicks : calls[k] \in Running}) <= 1

====
